---- MODULE Spec2Model ----
(***************************************************************************)
(* FILDOS storage manager: the storage allowance and persistence           *)
(* calculation (src/src/utils/calculateStorageMetrics.ts) and the payment  *)
(* remediation section that consumes its result (the StorageManager        *)
(* component, src/unnamed/part_000).                                       *)
(*                                                                         *)
(* Token amounts are JavaScript bigints (exact integers).  The two runway  *)
(* figures are JavaScript numbers obtained by Number(a) / Number(b); a     *)
(* number is modelled as an extended rational [num, den] in lowest terms,  *)
(* where den = 0 encodes the non-finite values Infinity (num = 1),         *)
(* -Infinity (num = -1) and NaN (num = 0).                                 *)
(***************************************************************************)
EXTENDS Integers, FiniteSets, Sequences, TLC

(***************************************************************************)
(* Bounds of the model and the input sets built from them.                 *)
(***************************************************************************)
\* Rates (per-epoch amounts) range over 0, 5, ..., 5 * MaxRateSteps.
MaxRateSteps == 2

RateValues == {5 * k : k \in 0..MaxRateSteps}

\* rateAllowanceNeeded only feeds the usage estimate.
RateAllowanceNeededValues == {0, 10}

\* currentLockupAllowance and currentLockupUsed.
LockupValues == {0, 100, 1000}

\* lockupAllowanceNeeded and depositAmountNeeded as the collaborator reports them.
LockupNeededValues == {0, 1500}

DepositNeededValues == {0, 500}

\* Wallet balances read by ActionSection: only zero / non-zero matters.
WalletValues == {0, 1}

\* TIME_CONSTANTS.EPOCHS_PER_DAY comes from the SDK, not from this repository:
\* the SDK's value (2880) and the value used by the specification's scenario (5).
EpochsPerDayValues == {5, 2880}

\* minDaysThreshold (config.minDaysThreshold unless the caller passes one).
ThresholdValues == {0, 10, 18, 20}

\* storageCapacity in bytes.
StorageCapacityValues == {7}

\* config.withCDN, the pricing tier.  It only enters currentRateAllowanceGB, which
\* is 0 under both tiers for the rates above; SpecCapacity evaluates both tiers.
WithCDNValues == {FALSE}

(***************************************************************************)
(* JavaScript numbers.                                                     *)
(***************************************************************************)
Abs(x) == IF x < 0 THEN -x ELSE x

Sign(x) == IF x > 0 THEN 1 ELSE IF x < 0 THEN -1 ELSE 0

RECURSIVE GCD(_, _)
GCD(a, b) == IF b = 0 THEN a ELSE GCD(b, a % b)

RECURSIVE BitLength(_)
BitLength(n) == IF n = 0 THEN 0 ELSE 1 + BitLength(n \div 2)

\* Bits of an IEEE-754 double's significand.
SignificandBits == 53

\* Number(bigint): the nearest double, ties to even.  Exact for every integer
\* of at most SignificandBits bits.
NumberOf(x) ==
    LET a     == Abs(x)
        shift == BitLength(a) - SignificandBits
    IN  IF shift <= 0 THEN x
        ELSE LET unit == 2 ^ shift
                 q    == a \div unit
                 r    == a % unit
                 half == unit \div 2
                 up   == r > half \/ (r = half /\ q % 2 = 1)
             IN  Sign(x) * (IF up THEN q + 1 ELSE q) * unit

Infinity == [num |-> 1, den |-> 0]

NegInfinity == [num |-> -1, den |-> 0]

NaN == [num |-> 0, den |-> 0]

Zero == [num |-> 0, den |-> 1]

IsFinite(v) == v.den # 0

\* x / y on numbers holding the integers x and y >= 0 (y = 0 is +0).
NumberDivide(x, y) ==
    IF y = 0 THEN [num |-> Sign(x), den |-> 0]
    ELSE LET g == GCD(Abs(x), y)
         IN  [num |-> x \div g, den |-> y \div g]

\* v >= t for a number v and a bigint t: false for NaN.
NumberGeqBigInt(v, t) ==
    IF v.den = 0 THEN v.num = 1 ELSE v.num >= t * v.den

\* v <= w on numbers: false when either is NaN.
NumberLeq(v, w) ==
    IF v.den = 0 \/ w.den = 0
    THEN /\ v # NaN
         /\ w # NaN
         /\ v = NegInfinity \/ w = Infinity
    ELSE LET g == GCD(v.den, w.den)
         IN  v.num * (w.den \div g) <= w.num * (v.den \div g)

(***************************************************************************)
(* calculateStorageMetrics.                                                *)
(* pandoraBalance is the snapshot checkAllowanceForStorage resolved to;    *)
(* costsPerEpoch is its costs.perEpoch.                                    *)
(***************************************************************************)
BalanceSnapshots ==
    [currentRateAllowance   : RateValues,
     currentRateUsed        : RateValues,
     currentLockupAllowance : LockupValues,
     currentLockupUsed      : LockupValues,
     rateAllowanceNeeded    : RateAllowanceNeededValues,
     lockupAllowanceNeeded  : LockupNeededValues,
     depositAmountNeeded    : DepositNeededValues,
     costsPerEpoch          : RateValues]

rateNeeded(pandoraBalance) == pandoraBalance.costsPerEpoch

lockupPerDay(pandoraBalance, epochsPerDay) ==
    epochsPerDay * rateNeeded(pandoraBalance)

lockupPerDayAtCurrentRate(pandoraBalance, epochsPerDay) ==
    epochsPerDay * pandoraBalance.currentRateUsed

\* A variant that reports the size of the difference, not its sign.
currentLockupRemainingAbs(pandoraBalance) ==
    Abs(pandoraBalance.currentLockupAllowance - pandoraBalance.currentLockupUsed)

currentLockupRemaining(pandoraBalance) ==
    pandoraBalance.currentLockupAllowance - pandoraBalance.currentLockupUsed

persistenceDaysLeftNoUsed(pandoraBalance, epochsPerDay) ==
    NumberDivide(NumberOf(pandoraBalance.currentLockupAllowance),
                 NumberOf(lockupPerDay(pandoraBalance, epochsPerDay)))

persistenceDaysLeft(pandoraBalance, epochsPerDay) ==
    NumberDivide(NumberOf(currentLockupRemaining(pandoraBalance)),
                 NumberOf(lockupPerDay(pandoraBalance, epochsPerDay)))

persistenceDaysLeftAtCurrentRateSwapped(pandoraBalance, epochsPerDay) ==
    IF lockupPerDayAtCurrentRate(pandoraBalance, epochsPerDay) > 0
    THEN NumberDivide(NumberOf(currentLockupRemaining(pandoraBalance)),
                      NumberOf(lockupPerDayAtCurrentRate(pandoraBalance, epochsPerDay)))
    ELSE IF currentLockupRemaining(pandoraBalance) > 0 THEN Zero ELSE Infinity

persistenceDaysLeftAtCurrentRateNonStrict(pandoraBalance, epochsPerDay) ==
    IF lockupPerDayAtCurrentRate(pandoraBalance, epochsPerDay) > 0
    THEN NumberDivide(NumberOf(currentLockupRemaining(pandoraBalance)),
                      NumberOf(lockupPerDayAtCurrentRate(pandoraBalance, epochsPerDay)))
    ELSE IF currentLockupRemaining(pandoraBalance) >= 0 THEN Infinity ELSE Zero

persistenceDaysLeftAtCurrentRate(pandoraBalance, epochsPerDay) ==
    IF lockupPerDayAtCurrentRate(pandoraBalance, epochsPerDay) > 0
    THEN NumberDivide(NumberOf(currentLockupRemaining(pandoraBalance)),
                      NumberOf(lockupPerDayAtCurrentRate(pandoraBalance, epochsPerDay)))
    ELSE IF currentLockupRemaining(pandoraBalance) > 0 THEN Infinity ELSE Zero

\* SIZE_CONSTANTS.GiB of the SDK: 2^30 bytes.
GiB == 1073741824

\* currentStorageBytes and currentStorageGB for a given number of bytes.
StorageUsage(bytes) ==
    [currentStorageBytes |-> bytes,
     currentStorageGB    |-> NumberDivide(NumberOf(bytes), NumberOf(GiB))]

NoStorageUsage == [currentStorageBytes |-> 0, currentStorageGB |-> Zero]

calculateCurrentStorageUsageRoundedUp(pandoraBalance, storageCapacity) ==
    IF pandoraBalance.currentRateUsed > 0 /\ pandoraBalance.rateAllowanceNeeded > 0
    THEN StorageUsage((pandoraBalance.currentRateUsed * storageCapacity
                          + pandoraBalance.rateAllowanceNeeded - 1)
                      \div pandoraBalance.rateAllowanceNeeded)
    ELSE NoStorageUsage

calculateCurrentStorageUsageFullByDefault(pandoraBalance, storageCapacity) ==
    IF pandoraBalance.currentRateUsed > 0 /\ pandoraBalance.rateAllowanceNeeded > 0
    THEN StorageUsage((pandoraBalance.currentRateUsed * storageCapacity)
                      \div pandoraBalance.rateAllowanceNeeded)
    ELSE StorageUsage(storageCapacity)

\* BigInt(storageCapacity) is exact: storageCapacity is an integer number of bytes.
calculateCurrentStorageUsage(pandoraBalance, storageCapacity) ==
    IF pandoraBalance.currentRateUsed > 0 /\ pandoraBalance.rateAllowanceNeeded > 0
    THEN StorageUsage((pandoraBalance.currentRateUsed * storageCapacity)
                      \div pandoraBalance.rateAllowanceNeeded)
    ELSE NoStorageUsage

(***************************************************************************)
(* Bigints beyond the range of the model checker's integers: a sequence of *)
(* limbs in base Base, least significant first, without leading zeros.     *)
(***************************************************************************)
Base == 10000

RECURSIVE BigFromInt(_)
BigFromInt(n) == IF n = 0 THEN <<>> ELSE <<n % Base>> \o BigFromInt(n \div Base)

RECURSIVE BigToInt(_)
BigToInt(b) == IF b = <<>> THEN 0 ELSE Head(b) + Base * BigToInt(Tail(b))

RECURSIVE BigNormalize(_)
BigNormalize(b) ==
    IF b = <<>> THEN <<>>
    ELSE IF b[Len(b)] = 0 THEN BigNormalize(SubSeq(b, 1, Len(b) - 1))
    ELSE b

RECURSIVE BigMulCarry(_, _, _)
BigMulCarry(b, m, carry) ==
    IF b = <<>> THEN BigFromInt(carry)
    ELSE LET t == Head(b) * m + carry
         IN  <<t % Base>> \o BigMulCarry(Tail(b), m, t \div Base)

\* b * m for an integer 0 <= m <= 200000.
BigMulSmall(b, m) == BigNormalize(BigMulCarry(b, m, 0))

RECURSIVE BigDivRem(_, _)
BigDivRem(b, d) ==
    IF b = <<>> THEN [q |-> <<>>, r |-> 0]
    ELSE LET hi  == BigDivRem(Tail(b), d)
             cur == hi.r * Base + Head(b)
         IN  [q |-> <<cur \div d>> \o hi.q, r |-> cur % d]

\* The truncating quotient b / d for an integer 0 < d <= 200000.
BigDivSmall(b, d) == BigNormalize(BigDivRem(b, d).q)

\* b * 2^bits.
RECURSIVE BigShiftLeft(_, _)
BigShiftLeft(b, bits) ==
    IF bits = 0 THEN b
    ELSE IF bits >= 10 THEN BigShiftLeft(BigMulSmall(b, 1024), bits - 10)
    ELSE BigMulSmall(b, 2 ^ bits)

\* The truncating quotient b / 10^e; dividing in steps truncates to the same
\* value as one division by the product.
RECURSIVE BigDivPow10(_, _)
BigDivPow10(b, e) ==
    IF e = 0 THEN b
    ELSE IF e >= 4 THEN BigDivPow10(BigDivSmall(b, 10000), e - 4)
    ELSE BigDivSmall(b, 10 ^ e)

(***************************************************************************)
(* Pricing and the capacity a rate allowance pays for.                     *)
(***************************************************************************)
\* BigInt(coefficient) * BigInt(10) ** BigInt(exponent), in wei.
PRICE_PER_TB_PER_MONTH == [coefficient |-> 2, exponent |-> 18]

PRICE_PER_TB_PER_MONTH_CDN == [coefficient |-> 3, exponent |-> 18]

getPricePerTBPerMonth(withCDN) ==
    IF withCDN THEN PRICE_PER_TB_PER_MONTH_CDN ELSE PRICE_PER_TB_PER_MONTH

\* TIME_CONSTANTS.EPOCHS_PER_MONTH of the SDK.
EPOCHS_PER_MONTH == 86400

\* SIZE_CONSTANTS.TiB of the SDK is 2^TiBBits bytes.
TiBBits == 40

\* A variant that divides the wrong way round (GiB per byte).
calculateRateAllowanceGBInverted(rateAllowance, withCDN) ==
    LET monthlyRate == BigMulSmall(BigFromInt(rateAllowance), EPOCHS_PER_MONTH)
        price       == getPricePerTBPerMonth(withCDN)
        bytesThatCanBeStored ==
            BigDivSmall(BigDivPow10(BigShiftLeft(monthlyRate, TiBBits), price.exponent),
                        price.coefficient)
    IN  NumberDivide(NumberOf(GiB), NumberOf(BigToInt(bytesThatCanBeStored)))

calculateRateAllowanceGB(rateAllowance, withCDN) ==
    LET monthlyRate == BigMulSmall(BigFromInt(rateAllowance), EPOCHS_PER_MONTH)
        price       == getPricePerTBPerMonth(withCDN)
        bytesThatCanBeStored ==
            BigDivSmall(BigDivPow10(BigShiftLeft(monthlyRate, TiBBits), price.exponent),
                        price.coefficient)
    IN  NumberDivide(NumberOf(BigToInt(bytesThatCanBeStored)), NumberOf(GiB))

isRateSufficientStrict(pandoraBalance) ==
    pandoraBalance.currentRateAllowance > rateNeeded(pandoraBalance)

isRateSufficient(pandoraBalance) ==
    pandoraBalance.currentRateAllowance >= rateNeeded(pandoraBalance)

isLockupSufficientStrict(daysLeft, minDaysThreshold) ==
    IF daysLeft.den = 0 THEN daysLeft.num = 1
    ELSE daysLeft.num > minDaysThreshold * daysLeft.den

isLockupSufficient(daysLeft, minDaysThreshold) ==
    NumberGeqBigInt(daysLeft, minDaysThreshold)

isSufficientEither(rateSufficient, lockupSufficient) ==
    rateSufficient \/ lockupSufficient

isSufficient(rateSufficient, lockupSufficient) ==
    rateSufficient /\ lockupSufficient

\* A variant that reports no deposit once the allowances are sufficient.
calculateStorageMetricsRecomputed(pandoraBalance, epochsPerDay, storageCapacity, minDaysThreshold, withCDN) ==
    LET daysLeft == persistenceDaysLeft(pandoraBalance, epochsPerDay)
        rateOk   == isRateSufficient(pandoraBalance)
        lockupOk == isLockupSufficient(daysLeft, minDaysThreshold)
        usage    == calculateCurrentStorageUsage(pandoraBalance, storageCapacity)
    IN  [rateNeeded                       |-> rateNeeded(pandoraBalance),
         rateUsed                         |-> pandoraBalance.currentRateUsed,
         currentStorageBytes              |-> usage.currentStorageBytes,
         currentStorageGB                 |-> usage.currentStorageGB,
         totalLockupNeeded                |-> pandoraBalance.lockupAllowanceNeeded,
         depositNeeded                    |->
             IF isSufficient(rateOk, lockupOk) THEN 0
             ELSE pandoraBalance.depositAmountNeeded,
         persistenceDaysLeft              |-> daysLeft,
         persistenceDaysLeftAtCurrentRate |->
             persistenceDaysLeftAtCurrentRate(pandoraBalance, epochsPerDay),
         isRateSufficient                 |-> rateOk,
         isLockupSufficient               |-> lockupOk,
         isSufficient                     |-> isSufficient(rateOk, lockupOk),
         currentRateAllowanceGB           |->
             calculateRateAllowanceGB(pandoraBalance.currentRateAllowance, withCDN),
         currentLockupAllowance           |-> pandoraBalance.currentLockupAllowance]

calculateStorageMetrics(pandoraBalance, epochsPerDay, storageCapacity, minDaysThreshold, withCDN) ==
    LET daysLeft == persistenceDaysLeft(pandoraBalance, epochsPerDay)
        rateOk   == isRateSufficient(pandoraBalance)
        lockupOk == isLockupSufficient(daysLeft, minDaysThreshold)
        usage    == calculateCurrentStorageUsage(pandoraBalance, storageCapacity)
    IN  [rateNeeded                       |-> rateNeeded(pandoraBalance),
         rateUsed                         |-> pandoraBalance.currentRateUsed,
         currentStorageBytes              |-> usage.currentStorageBytes,
         currentStorageGB                 |-> usage.currentStorageGB,
         totalLockupNeeded                |-> pandoraBalance.lockupAllowanceNeeded,
         depositNeeded                    |-> pandoraBalance.depositAmountNeeded,
         persistenceDaysLeft              |-> daysLeft,
         persistenceDaysLeftAtCurrentRate |->
             persistenceDaysLeftAtCurrentRate(pandoraBalance, epochsPerDay),
         isRateSufficient                 |-> rateOk,
         isLockupSufficient               |-> lockupOk,
         isSufficient                     |-> isSufficient(rateOk, lockupOk),
         currentRateAllowanceGB           |->
             calculateRateAllowanceGB(pandoraBalance.currentRateAllowance, withCDN),
         currentLockupAllowance           |-> pandoraBalance.currentLockupAllowance]

(***************************************************************************)
(* StorageManager: the data of the useBalances query and ActionSection.    *)
(***************************************************************************)
\* The query's data: the calculation result together with the wallet balances
\* ActionSection reads from it.
useBalances(pandoraBalance, walletBalances, cfg) ==
    calculateStorageMetrics(pandoraBalance, cfg.epochsPerDay, cfg.storageCapacity,
                            cfg.minDaysThreshold, cfg.withCDN)
        @@ [filBalance |-> walletBalances.fil, usdfcBalance |-> walletBalances.usdfc]

\* What a component presents is the set of its outcomes; {} is "return null".
LockupIncreaseAction(totalLockupNeeded, depositNeeded, rateNeededProp) ==
    IF totalLockupNeeded = 0 \/ depositNeeded = 0 \/ rateNeededProp = 0
    THEN {}
    ELSE {"LockupIncreaseAction"}

RateIncreaseAction(currentLockupAllowance, rateNeededProp) ==
    IF currentLockupAllowance = 0 \/ rateNeededProp = 0
    THEN {}
    ELSE {"RateIncreaseAction"}

ActionSectionOverlapping(balancesData, loading) ==
    IF loading \/ balancesData = <<>> THEN {}
    ELSE LET b == balancesData[1]
         IN  IF b.isSufficient THEN {"SufficiencyReport"}
             ELSE IF b.filBalance = 0 \/ b.usdfcBalance = 0
             THEN (IF b.filBalance = 0 THEN {"FilRequired"} ELSE {})
                  \cup (IF b.usdfcBalance = 0 THEN {"UsdfcRequired"} ELSE {})
             ELSE (IF ~b.isLockupSufficient
                   THEN LockupIncreaseAction(b.totalLockupNeeded, b.depositNeeded,
                                             b.rateNeeded)
                   ELSE {})
                  \cup (IF ~b.isRateSufficient /\ b.isLockupSufficient
                        THEN RateIncreaseAction(b.currentLockupAllowance, b.rateNeeded)
                        ELSE {})
                  \cup (IF ~b.isRateSufficient /\ ~b.isLockupSufficient
                        THEN {"CombinedAction"}
                        ELSE {})

ActionSection(balancesData, loading) ==
    IF loading \/ balancesData = <<>> THEN {}
    ELSE LET b == balancesData[1]
         IN  IF b.isSufficient THEN {"SufficiencyReport"}
             ELSE IF b.filBalance = 0 \/ b.usdfcBalance = 0
             THEN (IF b.filBalance = 0 THEN {"FilRequired"} ELSE {})
                  \cup (IF b.usdfcBalance = 0 THEN {"UsdfcRequired"} ELSE {})
             ELSE (IF b.isRateSufficient /\ ~b.isLockupSufficient
                   THEN LockupIncreaseAction(b.totalLockupNeeded, b.depositNeeded,
                                             b.rateNeeded)
                   ELSE {})
                  \cup (IF ~b.isRateSufficient /\ b.isLockupSufficient
                        THEN RateIncreaseAction(b.currentLockupAllowance, b.rateNeeded)
                        ELSE {})
                  \cup (IF ~b.isRateSufficient /\ ~b.isLockupSufficient
                        THEN {"CombinedAction"}
                        ELSE {})

\* The argument each button's onClick passes to onPayment.
LockupIncreasePayment(totalLockupNeeded, depositNeeded, rateNeededProp) ==
    [action             |-> "LockupIncreaseAction",
     lockupAllowance    |-> totalLockupNeeded,
     epochRateAllowance |-> rateNeededProp,
     depositAmount      |-> depositNeeded]

RateIncreasePaymentSwapped(currentLockupAllowance, rateNeededProp) ==
    [action             |-> "RateIncreaseAction",
     lockupAllowance    |-> rateNeededProp,
     epochRateAllowance |-> currentLockupAllowance,
     depositAmount      |-> 0]

RateIncreasePayment(currentLockupAllowance, rateNeededProp) ==
    [action             |-> "RateIncreaseAction",
     lockupAllowance    |-> currentLockupAllowance,
     epochRateAllowance |-> rateNeededProp,
     depositAmount      |-> 0]

CombinedPayment(b) ==
    [action             |-> "CombinedAction",
     lockupAllowance    |-> b.totalLockupNeeded,
     epochRateAllowance |-> b.rateNeeded,
     depositAmount      |-> b.depositNeeded]

(***************************************************************************)
(* State.                                                                  *)
(***************************************************************************)
VARIABLES
    config,               \* epochsPerDay, minDaysThreshold, storageCapacity, withCDN
    chain,                \* the snapshot the payment-market collaborator reports
    wallet,               \* the wallet's FIL and USDFC balances
    balances,             \* useBalances data: <<>> (undefined) or <<result>>
    isLoading,            \* useBalances isLoading: no data yet, first query pending
    error,                \* useBalances error: the last query failed
    fetching,             \* a calculateStorageMetrics invocation is in flight
    snapshotQueries,      \* checkAllowanceForStorage calls of that (or the last) invocation
    isProcessingPayment,  \* paymentMutation.isPending
    payment,              \* the arguments of the onPayment calls in flight
    pendingRefetches,     \* click handlers waiting in handleRefetchBalances
    capacityQuery,        \* two rate allowances and the pricing tier to evaluate
    capacityResult        \* <<>> or <<GB for rateA, GB for rateB>>

uiVars == <<config, chain, wallet, balances, isLoading, error, fetching, snapshotQueries,
            isProcessingPayment, payment, pendingRefetches>>

capacityVars == <<capacityQuery, capacityResult>>

vars == <<config, chain, wallet, balances, isLoading, error, fetching, snapshotQueries,
          isProcessingPayment, payment, pendingRefetches, capacityQuery, capacityResult>>

\* Click handlers that may wait for a refetch at the same time.
MaxPendingRefetches == 2

Configs ==
    [epochsPerDay     : EpochsPerDayValues,
     minDaysThreshold : ThresholdValues,
     storageCapacity  : StorageCapacityValues,
     withCDN          : WithCDNValues]

Init ==
    /\ config \in Configs
    /\ chain \in BalanceSnapshots
    /\ wallet \in [fil : WalletValues, usdfc : WalletValues]
    /\ balances = <<>>
    /\ isLoading = TRUE
    /\ error = FALSE
    /\ fetching = FALSE
    /\ snapshotQueries = 0
    /\ isProcessingPayment = FALSE
    /\ payment = <<>>
    /\ pendingRefetches = 0
    /\ capacityQuery = [rateA |-> 0, rateB |-> 0, withCDN |-> FALSE]
    /\ capacityResult = <<>>

(***************************************************************************)
(* The useBalances query: one calculateStorageMetrics invocation.          *)
(***************************************************************************)
\* calculateStorageMetrics is called (first load, or a refetch a click handler
\* waits for): it calls checkAllowanceForStorage once and awaits it.
Invoke ==
    /\ ~fetching
    /\ isLoading \/ pendingRefetches > 0
    /\ fetching' = TRUE
    /\ snapshotQueries' = 1
    /\ UNCHANGED <<config, chain, wallet, balances, isLoading, error, isProcessingPayment,
                   payment, pendingRefetches>>
    /\ UNCHANGED capacityVars

\* checkAllowanceForStorage resolves and the calculation returns its result.
QuerySucceeds ==
    /\ isLoading
    /\ fetching
    /\ balances' = <<useBalances(chain, wallet, config)>>
    /\ isLoading' = FALSE
    /\ error' = FALSE
    /\ fetching' = FALSE
    /\ UNCHANGED <<config, chain, wallet, snapshotQueries, isProcessingPayment, payment,
                   pendingRefetches>>
    /\ UNCHANGED capacityVars

\* A variant that queries a second time before giving up.
QueryFailsRetries ==
    /\ isLoading
    /\ fetching
    /\ IF snapshotQueries < 2
       THEN /\ snapshotQueries' = snapshotQueries + 1
            /\ UNCHANGED <<isLoading, error, fetching>>
       ELSE /\ isLoading' = FALSE
            /\ error' = TRUE
            /\ fetching' = FALSE
            /\ UNCHANGED snapshotQueries
    /\ UNCHANGED <<config, chain, wallet, balances, isProcessingPayment, payment,
                   pendingRefetches>>
    /\ UNCHANGED capacityVars

\* checkAllowanceForStorage rejects: the invocation rejects, there is no result.
QueryFails ==
    /\ isLoading
    /\ fetching
    /\ isLoading' = FALSE
    /\ error' = TRUE
    /\ fetching' = FALSE
    /\ UNCHANGED <<config, chain, wallet, balances, snapshotQueries, isProcessingPayment,
                   payment, pendingRefetches>>
    /\ UNCHANGED capacityVars

(***************************************************************************)
(* The remediation buttons.                                                *)
(***************************************************************************)
\* A variant whose button stays enabled while a payment is processing.
SubmitNotDisabled(args) ==
    /\ Len(payment) < 2
    /\ pendingRefetches < MaxPendingRefetches
    /\ payment' = Append(payment, args)
    /\ isProcessingPayment' = TRUE
    /\ UNCHANGED <<config, chain, wallet, balances, isLoading, error, fetching,
                   snapshotQueries, pendingRefetches>>
    /\ UNCHANGED capacityVars

\* onClick of a button with disabled={isProcessingPayment}: onPayment(args).
Submit(args) ==
    /\ ~isProcessingPayment
    /\ pendingRefetches < MaxPendingRefetches
    /\ payment' = Append(payment, args)
    /\ isProcessingPayment' = TRUE
    /\ UNCHANGED <<config, chain, wallet, balances, isLoading, error, fetching,
                   snapshotQueries, pendingRefetches>>
    /\ UNCHANGED capacityVars

ClickLockupIncrease ==
    /\ "LockupIncreaseAction" \in ActionSection(balances, isLoading)
    /\ Submit(LockupIncreasePayment(balances[1].totalLockupNeeded,
                                    balances[1].depositNeeded,
                                    balances[1].rateNeeded))

ClickRateIncrease ==
    /\ "RateIncreaseAction" \in ActionSection(balances, isLoading)
    /\ Submit(RateIncreasePayment(balances[1].currentLockupAllowance,
                                  balances[1].rateNeeded))

ClickCombined ==
    /\ "CombinedAction" \in ActionSection(balances, isLoading)
    /\ Submit(CombinedPayment(balances[1]))

\* onPayment resolves: the handler goes on to await handleRefetchBalances().
PaymentResolves ==
    /\ payment # <<>>
    /\ payment' = Tail(payment)
    /\ isProcessingPayment' = FALSE
    /\ pendingRefetches' = pendingRefetches + 1
    /\ UNCHANGED <<config, chain, wallet, balances, isLoading, error, fetching,
                   snapshotQueries>>
    /\ UNCHANGED capacityVars

\* onPayment rejects: the handler ends there, handleRefetchBalances is not called.
PaymentRejects ==
    /\ payment # <<>>
    /\ payment' = Tail(payment)
    /\ isProcessingPayment' = FALSE
    /\ UNCHANGED <<config, chain, wallet, balances, isLoading, error, fetching,
                   snapshotQueries, pendingRefetches>>
    /\ UNCHANGED capacityVars

\* refetchBalances resolves with fresh data.
RefetchSucceeds ==
    /\ ~isLoading
    /\ fetching
    /\ pendingRefetches > 0
    /\ pendingRefetches' = pendingRefetches - 1
    /\ balances' = <<useBalances(chain, wallet, config)>>
    /\ error' = FALSE
    /\ fetching' = FALSE
    /\ UNCHANGED <<config, chain, wallet, isLoading, snapshotQueries, isProcessingPayment,
                   payment>>
    /\ UNCHANGED capacityVars

\* refetchBalances resolves with an error: the previous data stays.
RefetchFails ==
    /\ ~isLoading
    /\ fetching
    /\ pendingRefetches > 0
    /\ pendingRefetches' = pendingRefetches - 1
    /\ error' = TRUE
    /\ fetching' = FALSE
    /\ UNCHANGED <<config, chain, wallet, balances, isLoading, snapshotQueries,
                   isProcessingPayment, payment>>
    /\ UNCHANGED capacityVars

Next ==
    \/ Invoke
    \/ QuerySucceeds
    \/ QueryFails
    \/ ClickLockupIncrease
    \/ ClickRateIncrease
    \/ ClickCombined
    \/ PaymentResolves
    \/ PaymentRejects
    \/ RefetchSucceeds
    \/ RefetchFails

Spec == Init /\ [][Next]_vars

(***************************************************************************)
(* calculateRateAllowanceGB on its own: two rate allowances under one      *)
(* pricing tier.                                                           *)
(***************************************************************************)
\* Rate allowances evaluated: 0..MaxCapacityRate wei per epoch.
MaxCapacityRate == 43

InitCapacity ==
    /\ capacityQuery \in [rateA   : 0..MaxCapacityRate,
                          rateB   : 0..MaxCapacityRate,
                          withCDN : BOOLEAN]
    /\ capacityResult = <<>>
    /\ config = [epochsPerDay |-> 2880, minDaysThreshold |-> 10, storageCapacity |-> 7,
                 withCDN |-> capacityQuery.withCDN]
    /\ chain = [currentRateAllowance |-> 0, currentRateUsed |-> 0,
                currentLockupAllowance |-> 0, currentLockupUsed |-> 0,
                rateAllowanceNeeded |-> 0, lockupAllowanceNeeded |-> 0,
                depositAmountNeeded |-> 0, costsPerEpoch |-> 0]
    /\ wallet = [fil |-> 0, usdfc |-> 0]
    /\ balances = <<>>
    /\ isLoading = FALSE
    /\ error = FALSE
    /\ fetching = FALSE
    /\ snapshotQueries = 0
    /\ isProcessingPayment = FALSE
    /\ payment = <<>>
    /\ pendingRefetches = 0

EvaluateCapacity ==
    /\ capacityResult = <<>>
    /\ capacityResult' =
           <<calculateRateAllowanceGB(capacityQuery.rateA, capacityQuery.withCDN),
             calculateRateAllowanceGB(capacityQuery.rateB, capacityQuery.withCDN)>>
    /\ UNCHANGED capacityQuery
    /\ UNCHANGED uiVars

NextCapacity == EvaluateCapacity

SpecCapacity == InitCapacity /\ [][NextCapacity]_vars

(***************************************************************************)
(* Properties.                                                             *)
(***************************************************************************)
Loaded == ~isLoading /\ balances # <<>>

Result == balances[1]

Remaining == chain.currentLockupAllowance - chain.currentLockupUsed

PaymentActions == {"LockupIncreaseAction", "RateIncreaseAction", "CombinedAction"}

FourOutcomes == PaymentActions \cup {"SufficiencyReport"}

Presented == ActionSection(balances, isLoading)

\* C1: in every result, isSufficient is true exactly when isRateSufficient and
\* isLockupSufficient are both true.
C1_SufficientIsConjunction ==
    Loaded =>
        (Result.isSufficient <=> (Result.isRateSufficient /\ Result.isLockupSufficient))

\* C1 witness: a result with the rate sufficient and the lockup not, reported
\* insufficient.
C1_Witness ==
    /\ Loaded
    /\ Result.isRateSufficient
    /\ ~Result.isLockupSufficient
    /\ ~Result.isSufficient

\* The other three flag combinations of C1 (each is reachable).
C1_LockupOnly ==
    Loaded /\ ~Result.isRateSufficient /\ Result.isLockupSufficient /\ ~Result.isSufficient

C1_Both ==
    Loaded /\ Result.isRateSufficient /\ Result.isLockupSufficient /\ Result.isSufficient

C1_Neither ==
    Loaded /\ ~Result.isRateSufficient /\ ~Result.isLockupSufficient /\ ~Result.isSufficient

\* C2: with a positive required rate r, isLockupSufficient is true exactly when
\* currentLockupAllowance - currentLockupUsed >= minDaysThreshold * EPOCHS_PER_DAY * r
\* (equality counts as sufficient).
C2_LockupSufficientIffRunwayCoversThreshold ==
    (Loaded /\ chain.costsPerEpoch > 0) =>
        (Result.isLockupSufficient <=>
            Remaining >= config.minDaysThreshold * config.epochsPerDay * chain.costsPerEpoch)

\* C2 witness: a runway of exactly 18 days against a threshold of 18 days is
\* sufficient.
C2_Witness ==
    /\ Loaded
    /\ chain.costsPerEpoch = 10
    /\ config.epochsPerDay = 5
    /\ Remaining = 900
    /\ config.minDaysThreshold = 18
    /\ Result.isLockupSufficient

\* C3: isRateSufficient is true exactly when currentRateAllowance >= rateNeeded,
\* where rateNeeded is the snapshot's required per-epoch rate.
C3_RateSufficientIffAllowanceCoversRate ==
    Loaded =>
        /\ Result.rateNeeded = chain.costsPerEpoch
        /\ Result.isRateSufficient <=> (chain.currentRateAllowance >= Result.rateNeeded)

\* C3 witness: currentRateAllowance equal to a positive rateNeeded is sufficient.
C3_Witness ==
    /\ Loaded
    /\ chain.costsPerEpoch > 0
    /\ chain.currentRateAllowance = chain.costsPerEpoch
    /\ Result.isRateSufficient

\* C4: with a positive required rate r, persistenceDaysLeft is the quotient
\* (currentLockupAllowance - currentLockupUsed) / (EPOCHS_PER_DAY * r); with
\* allowance 1000, used 100, r = 10 and 5 epochs per day the per-day lockup is 50
\* and persistenceDaysLeft is exactly 18.
C4_PersistenceDaysLeftIsQuotient ==
    (Loaded /\ chain.costsPerEpoch > 0) =>
        /\ IsFinite(Result.persistenceDaysLeft)
        /\ Result.persistenceDaysLeft.den > 0
        /\ Result.persistenceDaysLeft.num * (config.epochsPerDay * chain.costsPerEpoch)
               = Remaining * Result.persistenceDaysLeft.den
        /\ (/\ chain.currentLockupAllowance = 1000
            /\ chain.currentLockupUsed = 100
            /\ chain.costsPerEpoch = 10
            /\ config.epochsPerDay = 5)
               => /\ lockupPerDay(chain, config.epochsPerDay) = 50
                  /\ Result.persistenceDaysLeft = [num |-> 18, den |-> 1]

\* C4 witness: the scenario's snapshot has been calculated.
C4_Witness ==
    /\ Loaded
    /\ chain.currentLockupAllowance = 1000
    /\ chain.currentLockupUsed = 100
    /\ chain.costsPerEpoch = 10
    /\ config.epochsPerDay = 5
    /\ Result.persistenceDaysLeft = [num |-> 18, den |-> 1]

\* C5: when the snapshot's required rate is zero, persistenceDaysLeft is 0 and
\* isLockupSufficient is false for every positive minDaysThreshold.
C5_ZeroRequiredRateIsZeroRunway ==
    (Loaded /\ chain.costsPerEpoch = 0) =>
        /\ Result.persistenceDaysLeft = Zero
        /\ config.minDaysThreshold > 0 => ~Result.isLockupSufficient

\* C6: with currentRateUsed = 0 and currentLockupAllowance > currentLockupUsed,
\* persistenceDaysLeftAtCurrentRate is Infinity whatever the required rate is;
\* with currentRateUsed > 0 it is the finite quotient
\* (currentLockupAllowance - currentLockupUsed) / (EPOCHS_PER_DAY * currentRateUsed).
C6_RunwayAtCurrentRate ==
    Loaded =>
        /\ (chain.currentRateUsed = 0 /\ Remaining > 0)
               => Result.persistenceDaysLeftAtCurrentRate = Infinity
        /\ chain.currentRateUsed > 0
               => /\ IsFinite(Result.persistenceDaysLeftAtCurrentRate)
                  /\ Result.persistenceDaysLeftAtCurrentRate.den > 0
                  /\ Result.persistenceDaysLeftAtCurrentRate.num
                         * (config.epochsPerDay * chain.currentRateUsed)
                       = Remaining * Result.persistenceDaysLeftAtCurrentRate.den

\* C6 witness: nothing is being spent, lockup remains and the required rate is
\* positive: the runway at the current rate is unbounded.
C6_Witness ==
    /\ Loaded
    /\ chain.currentRateUsed = 0
    /\ Remaining > 0
    /\ chain.costsPerEpoch > 0
    /\ Result.persistenceDaysLeftAtCurrentRate = Infinity

\* C7: with currentRateUsed = 0 and currentLockupAllowance <= currentLockupUsed,
\* persistenceDaysLeftAtCurrentRate is exactly 0.
C7_NoUsageNoLockupIsZero ==
    (Loaded /\ chain.currentRateUsed = 0 /\ Remaining <= 0) =>
        Result.persistenceDaysLeftAtCurrentRate = Zero

\* C7 witness: nothing is being spent and the lockup is exactly used up.
C7_Witness ==
    /\ Loaded
    /\ chain.currentRateUsed = 0
    /\ chain.currentLockupAllowance = chain.currentLockupUsed
    /\ chain.currentLockupAllowance > 0
    /\ Result.persistenceDaysLeftAtCurrentRate = Zero

\* C8: for every loaded result, each combination of (isRateSufficient,
\* isLockupSufficient) has its outcome presented by ActionSection: the
\* sufficiency report, the lockup-increase action, the rate-increase action or
\* the combined action.
C8_EveryCombinationHasItsOutcome ==
    Loaded =>
        /\ (Result.isRateSufficient /\ Result.isLockupSufficient)
               => "SufficiencyReport" \in Presented
        /\ (Result.isRateSufficient /\ ~Result.isLockupSufficient)
               => "LockupIncreaseAction" \in Presented
        /\ (~Result.isRateSufficient /\ Result.isLockupSufficient)
               => "RateIncreaseAction" \in Presented
        /\ (~Result.isRateSufficient /\ ~Result.isLockupSufficient)
               => "CombinedAction" \in Presented

\* C9: for every loaded result at most one of the four outcomes is presented,
\* the rate-only action is never offered together with a deposit-bearing action,
\* and no payment action is offered when isSufficient is true.
C9_AtMostOneOutcome ==
    Loaded =>
        /\ Cardinality(Presented \cap FourOutcomes) <= 1
        /\ "RateIncreaseAction" \in Presented
               => Presented \cap {"LockupIncreaseAction", "CombinedAction"} = {}
        /\ Result.isSufficient => Presented \cap PaymentActions = {}

\* C9 witness: both allowances are insufficient, every amount is non-zero, and
\* the combined action alone is presented.
C9_Witness ==
    /\ Loaded
    /\ ~Result.isRateSufficient
    /\ ~Result.isLockupSufficient
    /\ Result.totalLockupNeeded # 0
    /\ Result.depositNeeded # 0
    /\ Presented = {"CombinedAction"}

\* C10: the payment submitted by the lockup-increase action keeps the rate
\* allowance: its epochRateAllowance is the user's current rate allowance, its
\* lockupAllowance is totalLockupNeeded and its depositAmount is depositNeeded.
C10_LockupIncreaseKeepsRateAllowance ==
    (payment # <<>> /\ payment[1].action = "LockupIncreaseAction") =>
        /\ payment[1].epochRateAllowance = chain.currentRateAllowance
        /\ payment[1].lockupAllowance = Result.totalLockupNeeded
        /\ payment[1].depositAmount = Result.depositNeeded

\* C11: the payment submitted by the rate-increase action has depositAmount = 0,
\* lockupAllowance equal to the snapshot's currentLockupAllowance and
\* epochRateAllowance equal to rateNeeded, which is strictly greater than
\* currentRateAllowance.
C11_RateIncreaseOnlyRaisesRate ==
    (payment # <<>> /\ payment[1].action = "RateIncreaseAction") =>
        /\ payment[1].depositAmount = 0
        /\ payment[1].lockupAllowance = chain.currentLockupAllowance
        /\ payment[1].epochRateAllowance = chain.costsPerEpoch
        /\ payment[1].epochRateAllowance = Result.rateNeeded
        /\ payment[1].epochRateAllowance > chain.currentRateAllowance

\* C11 witness: a rate-increase payment is in flight for a result with the
\* lockup sufficient and the rate insufficient.
C11_Witness ==
    /\ payment # <<>>
    /\ payment[1].action = "RateIncreaseAction"
    /\ Result.isLockupSufficient
    /\ ~Result.isRateSufficient
    /\ payment[1].lockupAllowance # payment[1].epochRateAllowance

\* C12: whenever both isRateSufficient and isLockupSufficient are false, the
\* combined remediation submits (totalLockupNeeded, rateNeeded, depositNeeded)
\* with depositNeeded non-zero and rateNeeded strictly greater than
\* currentRateAllowance.
C12_CombinedPaymentDepositsAndRaisesRate ==
    (payment # <<>> /\ payment[1].action = "CombinedAction") =>
        /\ ~Result.isRateSufficient
        /\ ~Result.isLockupSufficient
        /\ payment[1].lockupAllowance = Result.totalLockupNeeded
        /\ payment[1].epochRateAllowance = Result.rateNeeded
        /\ payment[1].depositAmount = Result.depositNeeded
        /\ payment[1].depositAmount # 0
        /\ payment[1].epochRateAllowance > chain.currentRateAllowance

\* C13: when currentRateUsed > 0 and rateAllowanceNeeded > 0, currentStorageBytes
\* is the truncating quotient (currentRateUsed * storageCapacity) /
\* rateAllowanceNeeded; it is at most storageCapacity when currentRateUsed <=
\* rateAllowanceNeeded and equals storageCapacity when the two rates are equal.
C13_UsageIsTruncatedProportion ==
    (Loaded /\ chain.currentRateUsed > 0 /\ chain.rateAllowanceNeeded > 0) =>
        /\ Result.currentStorageBytes * chain.rateAllowanceNeeded
               <= chain.currentRateUsed * config.storageCapacity
        /\ chain.currentRateUsed * config.storageCapacity
               < (Result.currentStorageBytes + 1) * chain.rateAllowanceNeeded
        /\ chain.currentRateUsed <= chain.rateAllowanceNeeded
               => Result.currentStorageBytes <= config.storageCapacity
        /\ chain.currentRateUsed = chain.rateAllowanceNeeded
               => Result.currentStorageBytes = config.storageCapacity

\* C13 witness: half the needed rate is in use and the quotient is truncated
\* (5 * 7 / 10 = 3).
C13_Witness ==
    /\ Loaded
    /\ chain.currentRateUsed = 5
    /\ chain.rateAllowanceNeeded = 10
    /\ config.storageCapacity = 7
    /\ Result.currentStorageBytes = 3

\* C14: the usage estimate (currentStorageBytes and currentStorageGB) is exactly
\* 0 whenever rateAllowanceNeeded = 0 or currentRateUsed = 0, and the rest of the
\* result is still produced.
C14_UsageIsZeroWithoutRates ==
    (Loaded /\ (chain.rateAllowanceNeeded = 0 \/ chain.currentRateUsed = 0)) =>
        /\ Result.currentStorageBytes = 0
        /\ Result.currentStorageGB = Zero
        /\ Result.rateNeeded = chain.costsPerEpoch
        /\ Result.isSufficient \in BOOLEAN

\* C14 witness: a rate is in use, rateAllowanceNeeded is 0 and the estimate is 0.
C14_Witness ==
    /\ Loaded
    /\ chain.currentRateUsed > 0
    /\ chain.rateAllowanceNeeded = 0
    /\ Result.currentStorageBytes = 0
    /\ Result.currentStorageGB = Zero

\* C15: calculateRateAllowanceGB is monotonically non-decreasing in the rate
\* allowance under one pricing tier, and the capacity of a zero rate is 0.
C15_CapacityIsMonotone ==
    capacityResult # <<>> =>
        /\ capacityQuery.rateA <= capacityQuery.rateB
               => NumberLeq(capacityResult[1], capacityResult[2])
        /\ capacityQuery.rateA = 0 => capacityResult[1] = Zero

\* C15 witness: two rates with different non-zero capacities (the truncated byte
\* count steps from 1 to 2 between them).
C15_Witness ==
    /\ capacityResult # <<>>
    /\ capacityQuery.rateA < capacityQuery.rateB
    /\ capacityResult[1] # Zero
    /\ capacityResult[1] # capacityResult[2]
    /\ NumberLeq(capacityResult[1], capacityResult[2])

\* C16: totalLockupNeeded, depositNeeded, currentLockupAllowance and rateUsed of
\* the result are the snapshot's lockupAllowanceNeeded, depositAmountNeeded,
\* currentLockupAllowance and currentRateUsed, whatever the sufficiency flags are.
C16_AmountsArePassedThrough ==
    Loaded =>
        /\ Result.totalLockupNeeded = chain.lockupAllowanceNeeded
        /\ Result.depositNeeded = chain.depositAmountNeeded
        /\ Result.currentLockupAllowance = chain.currentLockupAllowance
        /\ Result.rateUsed = chain.currentRateUsed

\* C16 witness: a sufficient result still carries the snapshot's non-zero
\* amounts.
C16_Witness ==
    /\ Loaded
    /\ Result.isSufficient
    /\ chain.depositAmountNeeded # 0
    /\ chain.lockupAllowanceNeeded # 0
    /\ chain.currentRateUsed # 0
    /\ Result.depositNeeded = chain.depositAmountNeeded

\* C17: every invocation of calculateStorageMetrics issues exactly one snapshot
\* query, before any calculation; when that query fails the invocation ends with
\* the failure, produces no result and issues no further query.
C17_OneSnapshotQueryPerInvocation ==
    /\ [](fetching => snapshotQueries = 1)
    /\ []((~fetching /\ (balances # <<>> \/ error)) => snapshotQueries = 1)
    /\ [][(balances' # balances) => (fetching /\ snapshotQueries = 1 /\ ~error')]_vars
    /\ [][(fetching /\ ~fetching') =>
              (/\ snapshotQueries = 1
               /\ snapshotQueries' = snapshotQueries
               /\ error' => balances' = balances)]_vars

\* C17 witness: the first query failed: one snapshot query was issued, the
\* invocation is over and there is no result.
C17_Witness ==
    /\ error
    /\ ~fetching
    /\ ~isLoading
    /\ balances = <<>>
    /\ snapshotQueries = 1

\* C18: for a snapshot with currentLockupUsed > currentLockupAllowance the result
\* is complete, neither runway is positive or unbounded, and isLockupSufficient
\* and isSufficient are false for every minDaysThreshold >= 0.
C18_OverspentLockupIsInsufficient ==
    (Loaded /\ chain.currentLockupUsed > chain.currentLockupAllowance) =>
        /\ NumberLeq(Result.persistenceDaysLeft, Zero)
        /\ NumberLeq(Result.persistenceDaysLeftAtCurrentRate, Zero)
        /\ ~Result.isLockupSufficient
        /\ ~Result.isSufficient

\* C18 witness: more lockup used than allowed, threshold 0, a positive required
\* rate and a rate in use: the result is there and reports insufficiency.
C18_Witness ==
    /\ Loaded
    /\ chain.currentLockupUsed > chain.currentLockupAllowance
    /\ config.minDaysThreshold = 0
    /\ chain.costsPerEpoch > 0
    /\ chain.currentRateUsed > 0
    /\ chain.currentRateAllowance >= chain.costsPerEpoch
    /\ ~Result.isSufficient

\* C19: a click runs the payment first and the refetch second: a handler starts
\* waiting for the refetch only in the step in which its payment resolves, once
\* per payment; a refetch starts only for a waiting handler; and while a payment
\* is processing no second payment is submitted.
C19_PaymentThenRefetch ==
    /\ [](Len(payment) <= 1)
    /\ [](isProcessingPayment <=> payment # <<>>)
    /\ [][isProcessingPayment => Len(payment') <= Len(payment)]_vars
    /\ [][(pendingRefetches' > pendingRefetches) =>
              (/\ payment # <<>>
               /\ payment' = Tail(payment)
               /\ pendingRefetches' = pendingRefetches + 1)]_vars
    /\ [][(~fetching /\ fetching' /\ ~isLoading) => pendingRefetches > 0]_vars
    /\ [][(pendingRefetches' < pendingRefetches) =>
              (fetching /\ ~fetching' /\ pendingRefetches' = pendingRefetches - 1)]_vars

\* C19 witness: a payment has resolved and the refetch its handler waits for is
\* in flight.
C19_Witness ==
    /\ ~isLoading
    /\ fetching
    /\ pendingRefetches = 1
    /\ payment = <<>>
    /\ ~isProcessingPayment

====
